---- MODULE Spec2Model ----
(***************************************************************************)
(* Model of ls-engines: the command line script (src/unnamed/part_000)     *)
(* and the tree loader (src/get-tree.js).                                  *)
(*                                                                         *)
(* A version is a triple <<major, minor, patch>> (node releases carry no   *)
(* pre-release tag).  A range string is a sequence of comparator terms     *)
(* joined by "||"; a term records its operator, its numbers and how many   *)
(* numeric components were written ("^1.0" has parts = 2, "^1" has         *)
(* parts = 1), so that formatting and re-parsing are not the identity.     *)
(* The empty sequence is the empty string / a missing declaration.         *)
(***************************************************************************)
EXTENDS Integers, Sequences, FiniteSets, TLC

\* ------------------------------------------------------------------------
\* Bounds of the model
\* ------------------------------------------------------------------------
MaxPkgs == 2

Universe ==
  { <<0, 0, 0>>, <<1, 0, 0>>, <<1, 5, 0>>, <<1, 5, 3>>, <<2, 0, 0>>, <<3, 0, 0>> }

validEngines == <<"node">>

selectedEngines == <<"node">>

\* ------------------------------------------------------------------------
\* Semver: comparison, range terms, satisfaction
\* ------------------------------------------------------------------------
VLess(v, w) ==
  \/ v[1] < w[1]
  \/ v[1] = w[1] /\ v[2] < w[2]
  \/ v[1] = w[1] /\ v[2] = w[2] /\ v[3] < w[3]

SemverCompare(a, b) == IF a = b THEN 0 ELSE IF VLess(a, b) THEN -1 ELSE 1

VGeq(v, w) == SemverCompare(v, w) >= 0

Term(op, major, minor, patch, parts) ==
  [op |-> op, major |-> major, minor |-> minor, patch |-> patch, parts |-> parts,
   spaced |-> TRUE]

\* the same comparator written without a space after its operator ("=1")
Unspaced(t) == [t EXCEPT !.spaced = FALSE]

Star == << Term("*", 0, 0, 0, 0) >>

Malformed == << Term("?", 0, 0, 0, 0) >>

NoRange == << >>

TermVersion(t) == << t.major, t.minor, t.patch >>

\* one comparator term of a range, as Semver desugars it
TermSat(v, t) ==
  CASE t.op = "*" -> TRUE
    [] t.op = ">=" -> VGeq(v, TermVersion(t))
    [] t.op = "<" -> VLess(v, TermVersion(t))
    [] t.op = "=" ->
         /\ v[1] = t.major
         /\ t.parts >= 2 => v[2] = t.minor
         /\ t.parts >= 3 => v[3] = t.patch
    [] t.op = "^" ->
         IF t.parts = 1 \/ t.major > 0
           THEN v[1] = t.major /\ VGeq(v, TermVersion(t))
           ELSE IF t.parts = 2 \/ t.minor > 0
             THEN v[1] = 0 /\ v[2] = t.minor /\ v[3] >= t.patch
             ELSE v = TermVersion(t)
    [] OTHER -> FALSE

\* new Semver.Range(r) throws on a comparator it cannot parse
RangeParses(r) == \A i \in 1..Len(r) : r[i].op # "?"

RangeTest(r, v) == \E i \in 1..Len(r) : TermSat(v, r[i])

\* Semver.satisfies(v, r): false when the range does not parse
SemverSatisfies(v, r) == RangeParses(r) /\ RangeTest(r, v)

\* ------------------------------------------------------------------------
\* Plain objects as entry lists (Object.entries / fromEntries)
\* ------------------------------------------------------------------------
Has(obj, k) == \E i \in 1..Len(obj) : obj[i][1] = k

Get(obj, k) == obj[CHOOSE i \in 1..Len(obj) : obj[i][1] = k][2]

\* obj[k] || dflt, for a range-valued property
RangeOr(obj, k, dflt) ==
  IF Has(obj, k) /\ Get(obj, k) # NoRange THEN Get(obj, k) ELSE dflt

Reverse(s) == [i \in 1..Len(s) |-> s[Len(s) + 1 - i]]

ToSet(s) == { s[i] : i \in 1..Len(s) }

\* ------------------------------------------------------------------------
\* Program state
\* ------------------------------------------------------------------------
VARIABLES
  allVersions,    \* pAllVersions: engine -> catalog, as fetched by getNodeVersions
  inventory,      \* tree.inventory: the packages of the dependency tree
  pkgEngines,     \* pkg.data.engines of the root package.json
  pGraphEntries,  \* promise of the [name, engines] tuples
  graphValids,    \* pGraphRanges' callback: what its await of getGraphValids gave
  pGraphRanges,   \* promise of { allowed, engines, ranges, valids }
  pRootRanges     \* promise of { engines, ranges, valids }

resVars ==
  << allVersions, inventory, pkgEngines, pGraphEntries, graphValids, pGraphRanges, pRootRanges >>

VARIABLES
  rawArgs,        \* the options as yargs parsed them, defaults applied
  argsPc,         \* "parsed", then "checked" or "failed", then "done"
  argsError,      \* what .check() threw
  argv,           \* the options after the middleware
  mode,           \* getTree's mode argument
  info,           \* what npmInfo(mode) resolved to
  treePc,         \* "start", "manifests" (the v1 lockfile branch), "done"
  loaderCalls,    \* the Arborist loaders getTree invoked
  logged,         \* the messages getTree passed to its logger
  refreshed       \* whether pacote re-fetched the manifests of the children

argsVars == << rawArgs, argsPc, argsError, argv >>

treeVars == << mode, info, treePc, loaderCalls, logged, refreshed >>

vars == << resVars, argsVars, treeVars >>

Pending == [status |-> "pending"]

\* ------------------------------------------------------------------------
\* part_000: helpers
\* ------------------------------------------------------------------------
caret(ver) == Term("^", ver[1], ver[2], ver[3], 3)

dropPatch(v) == Term("^", v[1], v[2], 0, 2)

\* a filter that hands the versions back newest first
validVersionsForEngines_Reversed(engines, all) ==
  [ i \in 1..Len(all) |->
      LET engine == all[i][1]
          versions == all[i][2]
          Keep(v) == SemverSatisfies(v, RangeOr(engines, engine, Star))
      IN << engine, Reverse(SelectSeq(versions, Keep)) >> ]

validVersionsForEngines(engines, all) ==
  [ i \in 1..Len(all) |->
      LET engine == all[i][1]
          versions == all[i][2]
          Keep(v) == SemverSatisfies(v, RangeOr(engines, engine, Star))
      IN << engine, SelectSeq(versions, Keep) >> ]

\* an intersection that forgets the last array
Intersect_DropLast(arrays) ==
  LET InAll(v) ==
        \A k \in 1..(Len(arrays) - 1) : \E j \in 1..Len(arrays[k]) : arrays[k][j] = v
  IN SelectSeq(arrays[1], InAll)

\* fast_array_intersect: the members of the first array present in all
Intersect(arrays) ==
  LET InAll(v) == \A k \in 1..Len(arrays) : \E j \in 1..Len(arrays[k]) : arrays[k][j] = v
  IN SelectSeq(arrays[1], InAll)

\* Array.prototype.sort with (a, b) => -Semver.compare(a, b)
RECURSIVE SortDescending(_)
SortDescending(s) ==
  IF Len(s) = 0 THEN << >>
  ELSE LET m == CHOOSE i \in 1..Len(s) : \A j \in 1..Len(s) : VGeq(s[i], s[j])
           rest == [ j \in 1..(Len(s) - 1) |-> IF j < m THEN s[j] ELSE s[j + 1] ]
       IN << s[m] >> \o SortDescending(rest)

getGraphValids(graphEntries, all) ==
  IF Len(graphEntries) = 0
    THEN [ allowed |-> << >>,
           valids |-> [ promise |-> TRUE,
                        entries |-> validVersionsForEngines(
                          [ i \in 1..Len(validEngines) |-> << validEngines[i], Star >> ], all) ] ]
    ELSE LET graphAllowed ==
               [ i \in 1..Len(graphEntries) |->
                   << graphEntries[i][1], graphEntries[i][2],
                      validVersionsForEngines(graphEntries[i][2], all) >> ]
             \* every package contributes one array per engine of the catalog
             mergedGraphEngines ==
               [ e \in 1..Len(all) |->
                   << all[e][1], [ i \in 1..Len(graphAllowed) |-> graphAllowed[i][3][e][2] ] >> ]
         IN [ allowed |-> graphAllowed,
              valids |-> [ promise |-> FALSE,
                           entries |-> [ e \in 1..Len(mergedGraphEngines) |->
                             << mergedGraphEngines[e][1],
                                SortDescending(Intersect(mergedGraphEngines[e][2])) >> ] ] ]

\* Object.entries of what getGraphValids put in "valids": a promise has none
ObjectEntries(x) == IF x.promise THEN << >> ELSE x.entries

\* the reduceRight of pGraphRanges: one anchor per run of caret-compatible
\* versions, scanning the array from its last element to its first
RECURSIVE MajorAnchors(_, _, _)
MajorAnchors(versions, i, prev) ==
  IF i = 0 THEN prev
  ELSE MajorAnchors(versions, i - 1,
         IF Len(prev) = 0 THEN << versions[i] >>
         ELSE IF SemverSatisfies(versions[i], << caret(prev[Len(prev)]) >>)
           THEN prev
           ELSE Append(prev, versions[i]))

\* replace(/(?:\.0)+(?<spacing> |$)/g, '$<spacing>') on one term of the raw range
StripZeros(t) ==
  IF t.parts = 3 /\ t.patch = 0 /\ t.minor = 0 THEN [t EXCEPT !.parts = 1]
  ELSE IF t.parts = 3 /\ t.patch = 0 THEN [t EXCEPT !.parts = 2]
  ELSE IF t.parts = 2 /\ t.minor = 0 THEN [t EXCEPT !.parts = 1]
  ELSE t

\* the callback mapped over Object.entries(graphValids): the synthesized range
\* of one engine, or the RangeError it throws
GraphRange(engine, versions, nEntries) ==
  LET anchors == MajorAnchors(versions, Len(versions), << >>)
      validMajorRanges ==
        IF nEntries > 0 /\ Len(versions) > 0
          THEN Reverse([ i \in 1..Len(anchors) |-> dropPatch(anchors[i]) ])
          ELSE Star
      lastMajor == validMajorRanges[Len(validMajorRanges)]
      greaterThanLowest ==
        IF lastMajor.op = "*" THEN << lastMajor >>
        ELSE << Term(">=", lastMajor.major, lastMajor.minor, 0, 2) >>
      validRange ==
        IF \A i \in 1..Len(versions) : SemverSatisfies(versions[i], greaterThanLowest)
          THEN greaterThanLowest
          ELSE validMajorRanges
  IN IF ~ (\A i \in 1..Len(versions) : RangeTest(validRange, versions[i]))
       THEN [ threw |-> TRUE,
              error |-> [ name |-> "RangeError", engine |-> engine,
                          versions |-> versions, validRange |-> validRange ] ]
       ELSE [ threw |-> FALSE,
              entry |-> << engine,
                           [ displayRange |-> [ i \in 1..Len(validRange) |-> StripZeros(validRange[i]) ],
                             validRange |-> validRange ] >> ]

\* the then-callback of pGraphRanges after its await of getGraphValids (gv)
GraphRanges(graphEntries, gv, all) ==
  LET validsEntries == ObjectEntries(gv.valids)
      results == [ i \in 1..Len(validsEntries) |->
                     GraphRange(validsEntries[i][1], validsEntries[i][2], Len(graphEntries)) ]
  IN IF \E i \in 1..Len(results) : results[i].threw
       THEN [ status |-> "rejected",
              reason |-> results[CHOOSE i \in 1..Len(results) :
                           results[i].threw /\ \A j \in 1..(i - 1) : ~ results[j].threw].error ]
       ELSE LET graphRanges == [ i \in 1..Len(results) |-> results[i].entry ]
                engines == [ i \in 1..Len(graphRanges) |->
                               << graphRanges[i][1], graphRanges[i][2].displayRange >> ]
                valids == [ i \in 1..Len(validEngines) |->
                              << validEngines[i],
                                 Get(validVersionsForEngines(engines, all), validEngines[i]) >> ]
            IN [ status |-> "fulfilled",
                 allowed |-> gv.allowed,
                 engines |-> engines,
                 ranges |-> graphRanges,
                 valids |-> valids ]

\* the then-callback of pGraphEntries on the loaded tree
GraphEntries(inv) ==
  LET Truthy(engines, engine) == Has(engines, engine) /\ Get(engines, engine) # NoRange
      WithEngines(node) ==
        /\ ~ node.package.inBundle
        /\ \E i \in 1..Len(selectedEngines) : Truthy(node.package.engines, selectedEngines[i])
      nodesWithEngines == SelectSeq(inv, WithEngines)
      tuples == [ i \in 1..Len(nodesWithEngines) |->
                    << nodesWithEngines[i].name, nodesWithEngines[i].package.engines >> ]
      NotStar(t) ==
        \E i \in 1..Len(selectedEngines) :
          ~ (Has(t[2], selectedEngines[i]) /\ Get(t[2], selectedEngines[i]) = Star)
  IN SelectSeq(tuples, NotStar)

\* replace(/[=](?<digits>\d)/, '= $<digits>'): a space after the first "=" that
\* a digit follows; the parsed comparator is the same
NormalizeEquals(data) ==
  IF \E i \in 1..Len(data) : data[i].op \in { "=", ">=" } /\ ~ data[i].spaced
    THEN LET k == CHOOSE i \in 1..Len(data) :
                    /\ data[i].op \in { "=", ">=" } /\ ~ data[i].spaced
                    /\ \A j \in 1..(i - 1) : ~ (data[j].op \in { "=", ">=" } /\ ~ data[j].spaced)
         IN [ data EXCEPT ![k].spaced = TRUE ]
    ELSE data

\* the then-callback of pRootRanges on the parsed package.json
RootRanges(pkgData, all) ==
  LET engineEntries ==
        [ i \in 1..Len(validEngines) |->
            << validEngines[i],
               IF Has(pkgData, validEngines[i]) /\ Get(pkgData, validEngines[i]) # NoRange
                 THEN NormalizeEquals(Get(pkgData, validEngines[i]))
                 ELSE NoRange >> ]
      rangeOf(i) == IF engineEntries[i][2] # NoRange THEN engineEntries[i][2] ELSE Star
  IN IF \E i \in 1..Len(engineEntries) : ~ RangeParses(rangeOf(i))
       THEN [ status |-> "rejected", reason |-> [ name |-> "TypeError" ] ]
       ELSE [ status |-> "fulfilled",
              engines |-> engineEntries,
              ranges |-> [ i \in 1..Len(engineEntries) |-> << engineEntries[i][1], rangeOf(i) >> ],
              valids |-> validVersionsForEngines(engineEntries, all) ]

\* ------------------------------------------------------------------------
\* Inputs of the resolution
\* ------------------------------------------------------------------------
RECURSIVE SortAscending(_)
SortAscending(S) ==
  IF S = {} THEN << >>
  ELSE LET m == CHOOSE v \in S : \A w \in S : v = w \/ VLess(v, w)
       IN << m >> \o SortAscending(S \ { m })

\* getNodeVersions: every released version, ascending
Catalogs == { SortAscending(S) : S \in (SUBSET Universe) \ { {} } }

DeclaredRanges ==
  { Star,
    << Term("^", 1, 0, 0, 2) >>,
    << Term(">=", 1, 5, 3, 3) >>,
    << Term("<", 2, 0, 0, 1) >>,
    << Term("^", 1, 5, 0, 2), Term("^", 3, 0, 0, 2) >>,
    Malformed }

PackageData ==
  { [ inBundle |-> FALSE, engines |-> << << "node", r >> >> ] : r \in DeclaredRanges }
    \cup { [ inBundle |-> FALSE, engines |-> << >> ],
           [ inBundle |-> TRUE, engines |-> << << "node", << Term("^", 1, 0, 0, 2) >> >> >> ] }

Inventories ==
  UNION { [ 1..n -> PackageData ] : n \in 0..MaxPkgs }

RootEngines ==
  { << >>,
    << << "node", << Unspaced(Term("=", 1, 0, 0, 1)) >> >> >>,
    << << "node", << Term(">=", 1, 5, 0, 2) >> >> >>,
    << << "node", Malformed >> >> }

\* ------------------------------------------------------------------------
\* Resolution: the promise chain of part_000
\* ------------------------------------------------------------------------
InitRes ==
  /\ allVersions \in { << << "node", c >> >> : c \in Catalogs }
  /\ inventory \in { [ i \in 1..Len(pk) |-> [ name |-> i, package |-> pk[i] ] ] : pk \in Inventories }
  /\ pkgEngines = Pending
  /\ pGraphEntries = Pending
  /\ graphValids = Pending
  /\ pGraphRanges = Pending
  /\ pRootRanges = Pending

PGraphEntries ==
  /\ pGraphEntries.status = "pending"
  /\ pGraphEntries' = [ status |-> "fulfilled", value |-> GraphEntries(inventory) ]
  /\ UNCHANGED << allVersions, inventory, pkgEngines, graphValids, pGraphRanges, pRootRanges >>
  /\ UNCHANGED << argsVars, treeVars >>

\* pGraphRanges' callback up to its first await: getGraphValids(graphEntries)
PGraphValids ==
  /\ pGraphEntries.status = "fulfilled"
  /\ graphValids.status = "pending"
  /\ graphValids' =
       [ status |-> "fulfilled", value |-> getGraphValids(pGraphEntries.value, allVersions) ]
  /\ UNCHANGED << allVersions, inventory, pkgEngines, pGraphEntries, pGraphRanges, pRootRanges >>
  /\ UNCHANGED << argsVars, treeVars >>

\* the rest of pGraphRanges' callback: the ranges, then the valids
PGraphRanges ==
  /\ graphValids.status = "fulfilled"
  /\ pGraphRanges.status = "pending"
  /\ pGraphRanges' = GraphRanges(pGraphEntries.value, graphValids.value, allVersions)
  /\ UNCHANGED << allVersions, inventory, pkgEngines, pGraphEntries, graphValids, pRootRanges >>
  /\ UNCHANGED << argsVars, treeVars >>

PRootRanges ==
  /\ pRootRanges.status = "pending"
  /\ \E data \in RootEngines :
       /\ pkgEngines' = [ status |-> "fulfilled", engines |-> data ]
       /\ pRootRanges' = RootRanges(data, allVersions)
  /\ UNCHANGED << allVersions, inventory, pGraphEntries, graphValids, pGraphRanges >>
  /\ UNCHANGED << argsVars, treeVars >>

\* ------------------------------------------------------------------------
\* part_000: the yargs options, .check() and .middleware()
\* ------------------------------------------------------------------------
\* a JavaScript boolean: a primitive, or a Boolean object (Object(false) is
\* the constant FALSE of the script, Object(true) its TRUE)
Primitive(b) == [ boxed |-> FALSE, value |-> b ]

BoxedFALSE == [ boxed |-> TRUE, value |-> FALSE ]

BoxedTRUE == [ boxed |-> TRUE, value |-> TRUE ]

\* ToBoolean: every object is truthy
Truthy(x) == x.boxed \/ x.value

\* x === TRUE || x === true
Enabled(x) == x = BoxedTRUE \/ x = Primitive(TRUE)

\* the callback of .check(): "ok", or the string it throws
yargsCheck(a) ==
  IF ~ (\E x \in { a.dev, a.production, a.peer } : Enabled(x))
    THEN "At least one of --dev, --production, or --peer must be enabled."
  ELSE IF Truthy(a.current) /\ Truthy(a.dev) /\ a.current # BoxedTRUE
    THEN "--current is not available when checking dev deps."
  ELSE "ok"

\* the callback of .middleware(): the effective options
yargsMiddleware(a) ==
  LET Unbox(x) == IF x.boxed THEN Primitive(x.value) ELSE x
      dev == Unbox(a.dev)
      current == IF a.current.boxed
                   THEN Primitive(~ Truthy(dev) /\ a.current.value)
                   ELSE a.current
      selectedEnginesSet == ToSet(a.engines)
  IN [ save |-> a.save,
       current |-> current,
       dev |-> dev,
       engines |-> SelectSeq(validEngines, LAMBDA engine : engine \in selectedEnginesSet),
       peer |-> Unbox(a.peer),
       production |-> Unbox(a.production) ]

InitArgs ==
  /\ rawArgs \in
       [ dev : { BoxedFALSE, Primitive(FALSE), Primitive(TRUE) },
         production : { BoxedTRUE, Primitive(FALSE), Primitive(TRUE) },
         peer : { BoxedFALSE, Primitive(FALSE), Primitive(TRUE) },
         current : { BoxedTRUE, Primitive(FALSE), Primitive(TRUE) },
         save : BOOLEAN,
         engines : { << "node" >> } ]
  /\ argsPc = "parsed"
  /\ argsError = "none"
  /\ argv = [ status |-> "pending" ]

YargsCheck ==
  /\ argsPc = "parsed"
  /\ LET r == yargsCheck(rawArgs)
     IN /\ argsPc' = IF r = "ok" THEN "checked" ELSE "failed"
        /\ argsError' = IF r = "ok" THEN argsError ELSE r
  /\ UNCHANGED << rawArgs, argv >>
  /\ UNCHANGED << resVars, treeVars >>

YargsMiddleware ==
  /\ argsPc = "checked"
  /\ argv' = yargsMiddleware(rawArgs)
  /\ argsPc' = "done"
  /\ UNCHANGED << rawArgs, argsError >>
  /\ UNCHANGED << resVars, treeVars >>

\* ------------------------------------------------------------------------
\* get-tree.js
\* ------------------------------------------------------------------------
Modes == { "auto", "actual", "virtual", "ideal" }

LockfileVersions == { 1, 2, 3 }

\* [].concat(c1 ? m1 : [], c2 ? m2 : [])
Messages(c1, m1, c2, m2) ==
  (IF c1 THEN << m1 >> ELSE << >>) \o (IF c2 THEN << m2 >> ELSE << >>)

\* the branch getTree takes: what it logs and the loader it calls
getTree(m, i) ==
  IF m = "actual" \/ i.hasNodeModules
    THEN [ log |-> [ messages |-> Messages(i.hasNodeModules, "node_modules found",
                                           m = "actual", "mode is actual"),
                     doing |-> "loading tree from disk" ],
           loader |-> [ name |-> "loadActual", fullMetadata |-> FALSE, updateAll |-> FALSE ] ]
  ELSE IF m = "virtual" \/ i.hasLockfile
    THEN IF i.hasLockfile /\ i.lockfileVersion < 2
      THEN [ log |-> [ messages |-> Messages(i.hasLockfile, "v1 lockfile found",
                                             m = "virtual", "mode is virtual"),
                       doing |-> "loading ideal tree from lockfile" ],
             loader |-> [ name |-> "buildIdealTree", fullMetadata |-> TRUE, updateAll |-> FALSE ] ]
      ELSE [ log |-> [ messages |-> Messages(i.hasLockfile, "Lockfile found",
                                             m = "virtual", "mode is virtual"),
                       doing |-> "loading virtual tree from lockfile" ],
             loader |-> [ name |-> "loadVirtual", fullMetadata |-> TRUE, updateAll |-> FALSE ] ]
  ELSE [ log |-> [ messages |-> Messages(TRUE, IF i.hasPackage THEN "package.json found"
                                                               ELSE "package.json not found",
                                         m = "ideal", "mode is ideal"),
                   doing |-> "building ideal tree from package.json" ],
         loader |-> [ name |-> "buildIdealTree", fullMetadata |-> TRUE, updateAll |-> TRUE ] ]

InitTree ==
  /\ mode \in Modes
  /\ info \in [ hasNodeModules : BOOLEAN, hasLockfile : BOOLEAN, hasPackage : BOOLEAN,
                lockfileVersion : LockfileVersions ]
  /\ treePc = "start"
  /\ loaderCalls = << >>
  /\ logged = << >>
  /\ refreshed = FALSE

\* getTree up to the loader it returns or awaits
GetTree ==
  /\ treePc = "start"
  /\ LET r == getTree(mode, info)
     IN /\ logged' = Append(logged, r.log)
        /\ loaderCalls' = Append(loaderCalls, r.loader)
        /\ treePc' = IF r.loader.name = "buildIdealTree" /\ ~ r.loader.updateAll
                       THEN "manifests" ELSE "done"
  /\ UNCHANGED << mode, info, refreshed >>
  /\ UNCHANGED << resVars, argsVars >>

\* the v1 lockfile branch: pacote.manifest for every child, then the tree
GetTreeManifests ==
  /\ treePc = "manifests"
  /\ refreshed' = TRUE
  /\ treePc' = "done"
  /\ UNCHANGED << mode, info, loaderCalls, logged >>
  /\ UNCHANGED << resVars, argsVars >>

\* ------------------------------------------------------------------------
\* Specifications
\* ------------------------------------------------------------------------
\* the options of a run without flags, after the middleware
ArgsDone ==
  /\ rawArgs = [ dev |-> BoxedFALSE, production |-> BoxedTRUE, peer |-> BoxedFALSE,
                 current |-> BoxedTRUE, save |-> FALSE, engines |-> << "node" >> ]
  /\ argsPc = "done"
  /\ argsError = "none"
  /\ argv = yargsMiddleware(rawArgs)

\* the tree of such a run in a directory with node_modules, loaded
TreeDone ==
  /\ mode = "auto"
  /\ info = [ hasNodeModules |-> TRUE, hasLockfile |-> TRUE, hasPackage |-> TRUE,
              lockfileVersion |-> 2 ]
  /\ treePc = "done"
  /\ loaderCalls = << getTree(mode, info).loader >>
  /\ logged = << getTree(mode, info).log >>
  /\ refreshed = FALSE

\* nothing of the resolution has run
ResIdle ==
  /\ allVersions = << >>
  /\ inventory = << >>
  /\ pkgEngines = Pending
  /\ pGraphEntries = Pending
  /\ graphValids = Pending
  /\ pGraphRanges = Pending
  /\ pRootRanges = Pending

\* the resolution of one run, over every catalog, inventory and root range
Init == ArgsDone /\ TreeDone /\ InitRes

Next == PGraphEntries \/ PGraphValids \/ PGraphRanges \/ PRootRanges

Spec == Init /\ [][Next]_vars

\* option parsing, over every way of giving the flags
NextArgs == YargsCheck \/ YargsMiddleware

StartArgs == InitArgs /\ TreeDone /\ ResIdle

SpecArgs == StartArgs /\ [][NextArgs]_vars

\* getTree, over every mode and every state of the directory
NextTree == GetTree \/ GetTreeManifests

StartTree == ArgsDone /\ InitTree /\ ResIdle

SpecTree == StartTree /\ [][NextTree]_vars

\* ------------------------------------------------------------------------
\* Properties of the resolution
\* ------------------------------------------------------------------------
Catalog == allVersions[1][2]

Constraints == pGraphEntries.value

\* the catalog versions that satisfy a range / every constraint of the graph
Filtered(r) == { v \in ToSet(Catalog) : SemverSatisfies(v, r) }

MutuallyValid ==
  { v \in ToSet(Catalog) :
      \A i \in 1..Len(Constraints) :
        SemverSatisfies(v, RangeOr(Constraints[i][2], "node", Star)) }

MergedValids == Get(graphValids.value.valids.entries, "node")

Majors(S) == { v[1] : v \in S }

IsDescending(s) == \A i \in 1..(Len(s) - 1) : VLess(s[i + 1], s[i])

IsAscending(s) == \A i \in 1..(Len(s) - 1) : VLess(s[i], s[i + 1])

\* the range pGraphRanges settled on for node: returned, or named by its error
Candidate ==
  IF pGraphRanges.status = "fulfilled"
    THEN Get(pGraphRanges.ranges, "node").validRange
    ELSE pGraphRanges.reason.validRange

\* C1: for a non-empty constraint list, the catalog versions satisfying the
\* validRange that pGraphRanges returns are exactly the mutually valid set
C1_RoundTrip ==
  (pGraphRanges.status = "fulfilled" /\ Len(Constraints) > 0)
    => { v \in ToSet(Catalog) : RangeTest(Get(pGraphRanges.ranges, "node").validRange, v) }
         = MutuallyValid

\* C2: whenever the candidate range does not denote the valid set over the
\* catalog (in either direction), pGraphRanges rejects with a RangeError naming
\* the engine, the versions and the candidate; it never returns such a range
C2_VerificationRaises ==
  ( /\ pGraphRanges.status # "pending"
    /\ Len(Constraints) > 0
    /\ Filtered(Candidate) # MutuallyValid )
    => /\ pGraphRanges.status = "rejected"
       /\ pGraphRanges.reason.name = "RangeError"
       /\ pGraphRanges.reason.engine = "node"
       /\ pGraphRanges.reason.versions = MergedValids

\* C3: when the valid set has versions of two majors and none of a major
\* between them that the catalog has, the returned range is the union of one
\* caret anchor per major of the set, not a single ">=" threshold
C3_DisjointMajorsUnion ==
  ( /\ pGraphRanges.status # "pending"
    /\ Len(Constraints) > 0
    /\ \E a, c \in Majors(MutuallyValid) :
         \E b \in Majors(ToSet(Catalog)) \ Majors(MutuallyValid) : a < b /\ b < c )
    => /\ pGraphRanges.status = "fulfilled"
       /\ \A i \in 1..Len(Candidate) : Candidate[i].op = "^"
       /\ { Candidate[i].major : i \in 1..Len(Candidate) } = Majors(MutuallyValid)

C5_FailOpen ==
  (pGraphRanges.status # "pending" /\ Len(Constraints) = 0)
    => /\ pGraphRanges.status = "fulfilled"
       /\ Get(pGraphRanges.valids, "node") = Catalog
       /\ Has(pGraphRanges.engines, "node")
       /\ Get(pGraphRanges.engines, "node") = Star

\* C6: with constraints that no catalog version satisfies together,
\* pGraphRanges completes and its valids for node are empty
C6_EmptyIntersection ==
  (pGraphRanges.status # "pending" /\ Len(Constraints) > 0 /\ MutuallyValid = {})
    => /\ pGraphRanges.status = "fulfilled"
       /\ Get(pGraphRanges.valids, "node") = << >>

\* C7: an unparsable declared range counts as absent: the merged valid set is
\* the one of the constraint list without that package, and an unparsable
\* root range resolves like "*"
C7_MalformedAsAbsent ==
  /\ graphValids.status = "fulfilled"
       => LET Parses(t) == RangeParses(RangeOr(t[2], "node", Star))
          IN graphValids.value.valids.entries
               = getGraphValids(SelectSeq(Constraints, Parses), allVersions).valids.entries
  /\ ( /\ pRootRanges.status # "pending"
       /\ ~ RangeParses(RangeOr(pkgEngines.engines, "node", Star)) )
       => /\ pRootRanges.status = "fulfilled"
          /\ Get(pRootRanges.valids, "node") = Catalog

\* C8 as stated: the valids of pGraphRanges and of pRootRanges are descending
C8_DescendingValids ==
  /\ pGraphRanges.status = "fulfilled" => IsDescending(Get(pGraphRanges.valids, "node"))
  /\ pRootRanges.status = "fulfilled" => IsDescending(Get(pRootRanges.valids, "node"))

\* C8 amended: over an ascending catalog the valids of pGraphRanges and of
\* pRootRanges are ascending, in catalog order; only the merged set of
\* getGraphValids for a non-empty constraint list is sorted descending
C8_CatalogOrderValids ==
  /\ pGraphRanges.status = "fulfilled" => IsAscending(Get(pGraphRanges.valids, "node"))
  /\ pRootRanges.status = "fulfilled" => IsAscending(Get(pRootRanges.valids, "node"))
  /\ (graphValids.status = "fulfilled" /\ Len(Constraints) > 0) => IsDescending(MergedValids)

C8_Witness ==
  /\ pGraphRanges.status = "fulfilled"
  /\ pRootRanges.status = "fulfilled"
  /\ Len(Constraints) > 0
  /\ Len(MergedValids) >= 2
  /\ Len(Get(pGraphRanges.valids, "node")) >= 2
  /\ Len(Get(pRootRanges.valids, "node")) >= 2
  /\ Get(pRootRanges.valids, "node") # Catalog

\* C9: an explicit mode selects the source of the tree, whatever the directory
\* holds: "actual" loads node_modules, "virtual" loads from the lockfile,
\* "ideal" builds from package.json; one loader call and one log line per call
C9_ModeSelectsSource ==
  treePc = "done"
    => /\ Len(loaderCalls) = 1
       /\ Len(logged) = 1
       /\ mode = "actual" => loaderCalls[1].name = "loadActual"
       /\ mode = "virtual" =>
            \/ loaderCalls[1].name = "loadVirtual"
            \/ loaderCalls[1].name = "buildIdealTree" /\ ~ loaderCalls[1].updateAll
       /\ mode = "ideal" =>
            loaderCalls[1].name = "buildIdealTree" /\ loaderCalls[1].updateAll

\* C10: .check() passes whenever dev is unset or explicitly false and one of
\* dev, production, peer is enabled, also with an explicit --current; and the
\* effective current and dev are never both true
C10_CurrentOnlyRejectedWithDev ==
  /\ ( /\ argsPc # "parsed"
       /\ rawArgs.dev \in { BoxedFALSE, Primitive(FALSE) }
       /\ \E x \in { rawArgs.dev, rawArgs.production, rawArgs.peer } : Enabled(x) )
       => argsPc # "failed"
  /\ argsPc = "done" => ~ (argv.current = Primitive(TRUE) /\ argv.dev = Primitive(TRUE))

====
